---- MODULE Spec2Model ----
(***************************************************************************)
(* Model of power.py: the schedule table built by PowerScheduler.__init__, *)
(* the timer chain of PowerScheduler (start -> Timer -> turn_on/turn_off   *)
(* -> _event -> _next -> _schedule) and the loop of                        *)
(* ThreadPowerScheduler.run.                                               *)
(*                                                                         *)
(* Time is discrete.  A datetime is the integer date * DayLen + time, a    *)
(* datetime.time is an integer in 0..DayLen-1.                             *)
(***************************************************************************)
EXTENDS Integers, Sequences, FiniteSets, TLC

\* ---------------------------------------------------------------- bounds
DayLen == 3          \* number of distinct times of day
MaxLen == 2          \* longest on_times / off_times list
MaxDays == 3         \* the clock stops before day MaxDays
StartDay == 1        \* the date on which the process starts

\* ------------------------------------------------------------- constants
ON == TRUE
OFF == FALSE
None == <<>>         \* Python None where an event tuple is expected
NoTime == -1         \* Python None where a datetime is expected

Times == 0 .. (DayLen - 1)

RECURSIVE SeqsUpTo(_, _)
SeqsUpTo(S, n) ==
    IF n = 0 THEN {<<>>}
    ELSE LET shorter == SeqsUpTo(S, n - 1)
         IN  shorter \cup {Append(s, x) : s \in {t \in shorter : Len(t) = n - 1}, x \in S}

TimeLists == SeqsUpTo(Times, MaxLen)

\* ------------------------------------------------------ datetime helpers
date(dt) == dt \div DayLen
timeof(dt) == dt % DayLen
combine(d, t) == d * DayLen + t

\* ------------------------------------------------------- table building
\* an insertion that places an element before the elements of equal key
InsertByKey_BeforeEqual(s, e) ==
    LET k == Cardinality({i \in 1 .. Len(s) : s[i][1] < e[1]})
    IN  SubSeq(s, 1, k) \o <<e>> \o SubSeq(s, k + 1, Len(s))

\* sorted(seq, key=lambda x: x[0]): a stable sort, as an insertion sort that
\* places each element after every element whose key is not greater.
InsertByKey(s, e) ==
    LET k == Cardinality({i \in 1 .. Len(s) : s[i][1] <= e[1]})
    IN  SubSeq(s, 1, k) \o <<e>> \o SubSeq(s, k + 1, Len(s))

RECURSIVE sorted(_)
sorted(s) ==
    IF s = <<>> THEN <<>>
    ELSE InsertByKey(sorted(SubSeq(s, 1, Len(s) - 1)), s[Len(s)])

Tagged(ts, st) == [i \in 1 .. Len(ts) |-> <<ts[i], st>>]

\* [(x, ON) for x in on_times] + [(x, OFF) for x in off_times], sorted
BuildStates(on, off) == sorted(Tagged(on, ON) \o Tagged(off, OFF))

\* ------------------------------------------- ThreadPowerScheduler.run scans
\* the scan with a strict comparison: an event at exactly now is missed
RECURSIVE ScanInitial_Strict(_, _, _, _)
ScanInitial_Strict(sts, t, i, acc) ==
    IF i > Len(sts) THEN acc
    ELSE ScanInitial_Strict(sts, t, i + 1, IF sts[i][1] < t THEN sts[i] ELSE acc)

\* for s in self.states: if s[0] <= now.time(): state = s
RECURSIVE ScanInitial(_, _, _, _)
ScanInitial(sts, t, i, acc) ==
    IF i > Len(sts) THEN acc
    ELSE ScanInitial(sts, t, i + 1, IF sts[i][1] <= t THEN sts[i] ELSE acc)

\* the initial state of run: the scan, then the fallback to the last entry
InitialState(sts, t) ==
    LET found == ScanInitial(sts, t, 1, None)
    IN  IF found = None THEN sts[Len(sts)] ELSE found

\* the scan with a comparison that is not strict: an event at the current
\* event's own time of day is taken as the next one
RECURSIVE ScanNextBreak_NotStrict(_, _, _)
ScanNextBreak_NotStrict(sts, t, i) ==
    IF i > Len(sts) THEN None
    ELSE IF sts[i][1] >= t THEN sts[i]
    ELSE ScanNextBreak_NotStrict(sts, t, i + 1)

\* the scan without its break: the last later event is kept
RECURSIVE ScanNextBreak_NoBreak(_, _, _)
ScanNextBreak_NoBreak(sts, t, i) ==
    IF i > Len(sts) THEN None
    ELSE LET rest == ScanNextBreak_NoBreak(sts, t, i + 1)
         IN  IF rest # None THEN rest
             ELSE IF sts[i][1] > t THEN sts[i] ELSE None

\* for s in self.states: if s[0] > state[0]: next_state = s; break
RECURSIVE ScanNextBreak(_, _, _)
ScanNextBreak(sts, t, i) ==
    IF i > Len(sts) THEN None
    ELSE IF sts[i][1] > t THEN sts[i]
    ELSE ScanNextBreak(sts, t, i + 1)

\* the step wrapping to the table's last entry instead of its first
nextAfter_WrapLast(sts, cur) ==
    LET next_state == ScanNextBreak(sts, cur[1], 1)
    IN  IF next_state = None THEN [event |-> sts[Len(sts)], dayOffset |-> 1]
        ELSE [event |-> next_state, dayOffset |-> 0]

\* the next-event step of run: the event and the day offset of its date
\* relative to now.date()
nextAfter(sts, cur) ==
    LET next_state == ScanNextBreak(sts, cur[1], 1)
    IN  IF next_state = None THEN [event |-> sts[1], dayOffset |-> 1]
        ELSE [event |-> next_state, dayOffset |-> 0]

\* ------------------------------------------------- PowerScheduler._next
\* for time, state in times: the branch taken depends on mark; there is no
\* break, so the last matching entry is kept
RECURSIVE ScanNext(_, _, _, _, _)
ScanNext(times, mark, now, i, acc) ==
    IF i > Len(times) THEN acc
    ELSE ScanNext(times, mark, now, i + 1,
                  IF mark = NoTime
                  THEN (IF times[i][1] <= timeof(now) THEN times[i] ELSE acc)
                  ELSE (IF times[i][1] > timeof(mark) THEN times[i] ELSE acc))

\* _next dating the wrapped first event from now instead of current_time
_next_TomorrowFromNow(on, off, markArg, cur_time, now) ==
    LET mark == IF markArg = NoTime THEN cur_time ELSE markArg
        times == BuildStates(on, off)
        found == ScanNext(times, mark, now, 1, None)
    IN  IF mark = NoTime
        THEN IF found = None
             THEN <<combine(date(now) - 1, times[Len(times)][1]), times[Len(times)][2]>>
             ELSE <<combine(date(now), found[1]), found[2]>>
        ELSE IF found = None
             THEN <<combine(date(now) + 1, times[1][1]), times[1][2]>>
             ELSE <<combine(date(cur_time), found[1]), found[2]>>

\* _next(self, mark): <<datetime, state>>; times must be non-empty
\* (times[len(times) - 1] and times[0] raise IndexError otherwise)
_next(on, off, markArg, cur_time, now) ==
    LET mark == IF markArg = NoTime THEN cur_time ELSE markArg
        times == BuildStates(on, off)
        found == ScanNext(times, mark, now, 1, None)
    IN  IF mark = NoTime
        THEN IF found = None
             THEN <<combine(date(now) - 1, times[Len(times)][1]), times[Len(times)][2]>>
             ELSE <<combine(date(now), found[1]), found[2]>>
        ELSE IF found = None
             THEN <<combine(date(cur_time) + 1, times[1][1]), times[1][2]>>
             ELSE <<combine(date(cur_time), found[1]), found[2]>>

VARIABLES
    on_times, off_times, \* constructor arguments / fields
    states,              \* self.states
    clock,               \* datetime.datetime.utcnow()
    pc,                  \* position of the caller (timer chain) or of run (thread)
    exc,                 \* exception raised by the last call or in the thread, or "none"
    state,               \* run: the local 'state'
    next,                \* run: the local 'next' (wake datetime)
    now,                 \* run: the local 'now'
    device,              \* the power state last set on the device
    applied,             \* log of <<clock, event>> state applications
    timers,              \* every threading.Timer created, in creation order
    timerRef,            \* self._timer: an index into timers, 0 for None
    current_time, current_state, next_time, next_state,   \* fields set by _event
    stops,               \* number of stop() calls made
    stopAt,              \* history: pc and Len(applied) at the first stop() call
    failures,            \* number of device-control calls that raised
    ret,                 \* return value of the last _next call
    cycle                \* log of the next-event steps taken from a picked event

objVars == <<on_times, off_times, states>>
runVars == <<state, next, now>>
timerVars == <<timers, timerRef, current_time, current_state, next_time, next_state>>
fnVars == <<ret, cycle>>
vars == <<on_times, off_times, states, clock, pc, exc, state, next, now, device, applied,
          timers, timerRef, current_time, current_state, next_time, next_state,
          stops, stopAt, failures, ret, cycle>>

Init ==
    /\ on_times \in TimeLists
    /\ off_times \in TimeLists
    /\ states = <<>>
    /\ clock \in (StartDay * DayLen) .. (StartDay * DayLen + DayLen - 1)
    /\ pc = "new"
    /\ exc = "none"
    /\ state = None
    /\ next = NoTime
    /\ now = NoTime
    /\ device = "unset"
    /\ applied = <<>>
    /\ timers = <<>>
    /\ timerRef = 0
    /\ current_time = NoTime
    /\ current_state = "unset"
    /\ next_time = NoTime
    /\ next_state = "unset"
    /\ stops = 0
    /\ stopAt = [pc |-> "none", applied |-> 0]
    /\ failures = 0
    /\ ret = None
    /\ cycle = <<>>

\* PowerScheduler.__init__ (ThreadPowerScheduler.__init__ calls it)
Construct ==
    /\ pc = "new"
    /\ states' = BuildStates(on_times, off_times)
    /\ timerRef' = 0
    /\ current_time' = NoTime
    /\ current_state' = "unset"
    /\ next_time' = NoTime
    /\ next_state' = "unset"
    /\ pc' = "idle"
    /\ UNCHANGED <<on_times, off_times, clock, exc, runVars, device, applied, timers,
                   stops, stopAt, failures, fnVars>>

\* ------------------------------------------------ ThreadPowerScheduler
\* ThreadPowerScheduler.start: threading.Thread.start(self)
ThreadStart ==
    /\ pc = "idle"
    /\ pc' = "init"
    /\ UNCHANGED <<objVars, clock, exc, runVars, device, applied, timerVars,
                   stops, stopAt, failures, fnVars>>

\* the initial state resolved but not applied: the loop entered at the
\* computation of the next state
RunInit_NoApply ==
    /\ pc = "init"
    /\ now' = clock
    /\ IF Len(states) = 0
       THEN /\ pc' = "dead"
            /\ exc' = "IndexError"
            /\ UNCHANGED state
       ELSE /\ state' = InitialState(states, timeof(now'))
            /\ pc' = "compute"
            /\ UNCHANGED exc
    /\ UNCHANGED <<objVars, clock, next, device, applied, timerVars,
                   stops, stopAt, failures, fnVars>>

\* run, lines 253-265: resolve the initial state
RunInit ==
    /\ pc = "init"
    /\ now' = clock
    /\ IF Len(states) = 0
       THEN \* self.states[len(self.states) - 1] raises IndexError in the thread
            /\ pc' = "dead"
            /\ exc' = "IndexError"
            /\ UNCHANGED state
       ELSE /\ state' = InitialState(states, timeof(now'))
            /\ pc' = "apply"
            /\ UNCHANGED exc
    /\ UNCHANGED <<objVars, clock, next, device, applied, timerVars,
                   stops, stopAt, failures, fnVars>>

\* run, lines 269-272: turn_on / turn_off returns normally
RunApply ==
    /\ pc = "apply"
    /\ device' = state[2]
    /\ applied' = Append(applied, <<clock, state>>)
    /\ pc' = "compute"
    /\ UNCHANGED <<objVars, clock, exc, runVars, timerVars, stops, stopAt, failures, fnVars>>

\* the wait entered whatever the delay: time.sleep raises on a negative one
RunCompute_SleepAlways ==
    /\ pc = "compute"
    /\ now' = clock
    /\ LET n == nextAfter(states, state)
           nxt == combine(date(now') + n.dayOffset, n.event[1])
           delay == nxt - now'
       IN  /\ state' = n.event
           /\ next' = nxt
           /\ pc' = IF delay >= 0 THEN "sleep" ELSE "dead"
    /\ UNCHANGED <<objVars, clock, exc, device, applied, timerVars,
                   stops, stopAt, failures, fnVars>>

\* run, lines 274-296: compute the next state and the wake instant
RunCompute ==
    /\ pc = "compute"
    /\ now' = clock
    /\ LET n == nextAfter(states, state)
           nxt == combine(date(now') + n.dayOffset, n.event[1])
           delay == nxt - now'
       IN  /\ state' = n.event
           /\ next' = nxt
           /\ pc' = IF delay >= 0 THEN "sleep" ELSE "apply"
    /\ UNCHANGED <<objVars, clock, exc, device, applied, timerVars,
                   stops, stopAt, failures, fnVars>>

\* time.sleep(delay) returns once the wake instant is reached
RunWake ==
    /\ pc = "sleep"
    /\ clock >= next
    /\ pc' = "apply"
    /\ UNCHANGED <<objVars, clock, exc, runVars, device, applied, timerVars,
                   stops, stopAt, failures, fnVars>>

\* time passes while the thread sleeps
Tick ==
    /\ pc = "sleep"
    /\ clock < next
    /\ clock + 1 < MaxDays * DayLen
    /\ clock' = clock + 1
    /\ UNCHANGED <<objVars, pc, exc, runVars, device, applied, timerVars,
                   stops, stopAt, failures, fnVars>>

\* ------------------------------------------------------ PowerScheduler
\* schedule_on / schedule_off via _schedule: a threading.Timer started at
\* utcnow with delay = when - utcnow, which calls turn_on / turn_off (per st)
NewTimer(when, st, utcnow) ==
    [when |-> when, st |-> st, status |-> "pending", succ |-> 0,
     started |-> utcnow, delay |-> when - utcnow]

\* start with a _next that sorts self.on_times in place
Start_SortsInPlace ==
    /\ pc = "idle"
    /\ on_times' = [i \in 1 .. Len(on_times) |-> sorted(Tagged(on_times, ON))[i][1]]
    /\ IF Len(states) = 0
       THEN /\ pc' = "failed"
            /\ exc' = "IndexError"
            /\ UNCHANGED <<timers, ret>>
       ELSE LET r == _next(on_times, off_times, NoTime, current_time, clock)
            IN  /\ ret' = r
                /\ timers' = Append(timers, NewTimer(r[1], r[2], clock))
                /\ pc' = "starting"
                /\ UNCHANGED exc
    /\ UNCHANGED <<off_times, states, clock, runVars, device, applied, timerRef,
                   current_time, current_state, next_time, next_state, stops, stopAt,
                   failures, cycle>>

\* start, lines 165-166 up to the return of _schedule
Start ==
    /\ pc = "idle"
    /\ IF Len(states) = 0
       THEN \* _next: times[len(times) - 1] raises IndexError
            /\ pc' = "failed"
            /\ exc' = "IndexError"
            /\ UNCHANGED <<timers, ret>>
       ELSE LET r == _next(on_times, off_times, NoTime, current_time, clock)
            IN  /\ ret' = r
                /\ timers' = Append(timers, NewTimer(r[1], r[2], clock))
                /\ pc' = "starting"
                /\ UNCHANGED exc
    /\ UNCHANGED <<objVars, clock, runVars, device, applied, timerRef, current_time,
                   current_state, next_time, next_state, stops, stopAt, failures, cycle>>

\* start, line 166: self._timer = <the timer _schedule returned>
StartAssign ==
    /\ pc = "starting"
    /\ timerRef' = 1
    /\ pc' = "started"
    /\ UNCHANGED <<objVars, clock, exc, runVars, device, applied, timers, current_time,
                   current_state, next_time, next_state, stops, stopAt, failures, fnVars>>

\* threading.Timer.run: the wait of 'delay' is over (at once when the delay
\* is not positive) and the timer was not cancelled
TimerFire(i) ==
    /\ timers[i].status = "pending"
    /\ clock >= timers[i].started + timers[i].delay
    /\ timers' = [timers EXCEPT ![i].status = "fired"]
    /\ UNCHANGED <<objVars, clock, pc, exc, runVars, device, applied, timerRef,
                   current_time, current_state, next_time, next_state, stops,
                   stopAt, failures, fnVars>>

\* turn_on / turn_off up to the call of the callback
TimerApply(i) ==
    /\ timers[i].status = "fired"
    /\ device' = timers[i].st
    /\ applied' = Append(applied, <<clock, <<timeof(timers[i].when), timers[i].st>>>>)
    /\ timers' = [timers EXCEPT ![i].status = "callback"]
    /\ UNCHANGED <<objVars, clock, pc, exc, runVars, timerRef, current_time,
                   current_state, next_time, next_state, stops, stopAt, failures, fnVars>>

\* _event scheduling nothing when no later event is left on the current day
TimerEvent_NoWrap(i) ==
    /\ timers[i].status = "callback"
    /\ LET when == timers[i].when
           r == _next(on_times, off_times, when, when, clock)
       IN  /\ current_state' = timers[i].st
           /\ current_time' = when
           /\ ret' = r
           /\ next_time' = r[1]
           /\ next_state' = r[2]
           /\ timers' = IF date(r[1]) = date(when)
                         THEN Append([timers EXCEPT ![i].status = "assign",
                                                    ![i].succ = Len(timers) + 1],
                                     NewTimer(r[1], r[2], clock))
                         ELSE [timers EXCEPT ![i].status = "done"]
    /\ UNCHANGED <<objVars, clock, pc, exc, runVars, device, applied, timerRef,
                   stops, stopAt, failures, cycle>>

\* _event, lines 200-207 up to the return of _schedule
TimerEvent(i) ==
    /\ timers[i].status = "callback"
    /\ LET when == timers[i].when
           r == _next(on_times, off_times, when, when, clock)
       IN  /\ current_state' = timers[i].st
           /\ current_time' = when
           /\ ret' = r
           /\ next_time' = r[1]
           /\ next_state' = r[2]
           /\ timers' = Append([timers EXCEPT ![i].status = "assign",
                                              ![i].succ = Len(timers) + 1],
                               NewTimer(r[1], r[2], clock))
    /\ UNCHANGED <<objVars, clock, pc, exc, runVars, device, applied, timerRef,
                   stops, stopAt, failures, cycle>>

\* _event, line 207: self._timer = <the timer _schedule returned>; the
\* timer's thread then ends
TimerAssign(i) ==
    /\ timers[i].status = "assign"
    /\ timerRef' = timers[i].succ
    /\ timers' = [timers EXCEPT ![i].status = "done"]
    /\ UNCHANGED <<objVars, clock, pc, exc, runVars, device, applied, current_time,
                   current_state, next_time, next_state, stops, stopAt, failures, fnVars>>

Busy(i) == timers[i].status \in {"fired", "callback", "assign"}
Pending(i) == timers[i].status = "pending"

\* time passes while the caller is outside start() and no timer is due or
\* running its function
TimerTick ==
    /\ pc = "started"
    /\ \A i \in DOMAIN timers : ~Busy(i) /\ (Pending(i) => clock < timers[i].when)
    /\ clock + 1 < MaxDays * DayLen
    /\ clock' = clock + 1
    /\ UNCHANGED <<objVars, pc, exc, runVars, device, applied, timerVars,
                   stops, stopAt, failures, fnVars>>

Fire == \E i \in DOMAIN timers : TimerFire(i)
Apply == \E i \in DOMAIN timers : TimerApply(i)
Event == \E i \in DOMAIN timers : TimerEvent(i)
Assign == \E i \in DOMAIN timers : TimerAssign(i)

\* both schedulers, the device control never failing and stop() never called
Next ==
    \/ Construct
    \/ ThreadStart \/ RunInit \/ RunApply \/ RunCompute \/ RunWake \/ Tick
    \/ Start \/ StartAssign \/ Fire \/ Apply \/ Event \/ Assign \/ TimerTick

Spec == Init /\ [][Next]_vars

\* ------------------------------------------------------------ slow calls
\* time passes while the scheduler's first turn_on / turn_off call runs: in
\* run, any amount before now is read again (line 274); in the first timer's
\* thread, one unit before _event schedules the successor
Skew ==
    /\ Len(applied) = 1
    /\ \/ pc = "compute"
       \/ /\ pc = "started"
          /\ timers[1].status = "callback"
          /\ clock = timers[1].started
    /\ clock + 1 < MaxDays * DayLen
    /\ clock' = clock + 1
    /\ UNCHANGED <<objVars, pc, exc, runVars, device, applied, timerVars,
                   stops, stopAt, failures, fnVars>>

NextSkew == Next \/ Skew

SpecSkew == Init /\ [][NextSkew]_vars

\* ------------------------------------------------------------------ stop
MaxStops == 2        \* stop() calls made on one scheduler

Started == pc \in {"started", "init", "apply", "compute", "sleep", "dead"}

\* threading.Timer.cancel: sets the timer's finished event, which only a
\* timer still waiting looks at
cancel(ts, i) ==
    IF ts[i].status = "pending" THEN [ts EXCEPT ![i].status = "cancelled"] ELSE ts

\* PowerScheduler.stop, inherited unchanged by ThreadPowerScheduler, called
\* after start() has returned
Stop ==
    /\ Started
    /\ stops < MaxStops
    /\ stops' = stops + 1
    /\ stopAt' = IF stops = 0 THEN [pc |-> pc, applied |-> Len(applied)] ELSE stopAt
    /\ IF timerRef = 0
       THEN \* self._timer is None: None.cancel() raises AttributeError
            /\ exc' = "AttributeError"
            /\ UNCHANGED timers
       ELSE /\ timers' = cancel(timers, timerRef)
            /\ UNCHANGED exc
    /\ UNCHANGED <<objVars, clock, pc, runVars, device, applied, timerRef, current_time,
                   current_state, next_time, next_state, failures, fnVars>>

NextStop == Next \/ Stop

SpecStop == Init /\ [][NextStop]_vars

\* a first stop() call made before the scheduler has applied a state
StopEarly == applied = <<>> /\ stops = 0 /\ Stop

NextStopEarly == Next \/ StopEarly

SpecStopEarly == Init /\ [][NextStopEarly]_vars

\* ------------------------------------------------ device-control errors
\* run, lines 269-272: turn_on / turn_off raises; run catches
\* KeyboardInterrupt only, so the exception ends the thread
RunApplyFail ==
    /\ pc = "apply"
    /\ pc' = "dead"
    /\ exc' = "Exception"
    /\ failures' = failures + 1
    /\ UNCHANGED <<objVars, clock, runVars, device, applied, timerVars,
                   stops, stopAt, fnVars>>

\* turn_on / turn_off raises in the timer's thread before the callback is
\* called: the thread ends without _event having run
TimerApplyFail(i) ==
    /\ timers[i].status = "fired"
    /\ timers' = [timers EXCEPT ![i].status = "done"]
    /\ exc' = "Exception"
    /\ failures' = failures + 1
    /\ UNCHANGED <<objVars, clock, pc, runVars, device, applied, timerRef,
                   current_time, current_state, next_time, next_state,
                   stops, stopAt, fnVars>>

ApplyFail == \E i \in DOMAIN timers : TimerApplyFail(i)

NextFail == Next \/ RunApplyFail \/ ApplyFail

SpecFail == Init /\ [][NextFail]_vars

\* ------------------------------------------- the table queries on their own
MaxFn == 2 * MaxLen + 1   \* steps taken from a picked event: one more than a full cycle

\* the initial-state resolution of run and of _next (no mark) at the time
\* of day of the clock
FnInitial ==
    /\ pc = "idle"
    /\ Len(states) > 0
    /\ state' = InitialState(states, timeof(clock))
    /\ ret' = _next(on_times, off_times, NoTime, NoTime, clock)
    /\ pc' = "fn"
    /\ UNCHANGED <<objVars, clock, exc, next, now, device, applied, timerVars,
                   stops, stopAt, failures, cycle>>

\* any event of the table as the current event
FnPick ==
    /\ pc = "idle"
    /\ \E i \in 1 .. Len(states) : state' = states[i]
    /\ pc' = "fn"
    /\ UNCHANGED <<objVars, clock, exc, next, now, device, applied, timerVars,
                   stops, stopAt, failures, ret, cycle>>

\* one next-event step from the current event: run's step, and _next called
\* as _event calls it, with mark = current_time = the current event's datetime
FnStep ==
    /\ pc = "fn"
    /\ Len(cycle) < MaxFn
    /\ LET n == nextAfter(states, state)
           when == combine(date(clock), state[1])
       IN  /\ cycle' = Append(cycle, [from |-> state, event |-> n.event,
                                      dayOffset |-> n.dayOffset])
           /\ state' = n.event
           /\ ret' = _next(on_times, off_times, when, when, clock)
    /\ UNCHANGED <<objVars, clock, pc, exc, next, now, device, applied, timerVars,
                   stops, stopAt, failures>>

NextFn == Construct \/ FnInitial \/ FnPick \/ FnStep

SpecFn == Init /\ [][NextFn]_vars

\* ------------------------------------------------------------ properties
Max(S) == CHOOSE x \in S : \A y \in S : y <= x
Min(S) == CHOOSE x \in S : \A y \in S : x <= y
TimesOf(sts) == {sts[i][1] : i \in 1 .. Len(sts)}
DistinctTimes(sts) == Cardinality(TimesOf(sts)) = Len(sts)
Count(seq, e) == Cardinality({i \in 1 .. Len(seq) : seq[i] = e})

\* the event the table dictates at time of day t: the one of greatest index
\* among those at or before t, the last one of the table when there is none
AtOrBefore(sts, t) == {i \in 1 .. Len(sts) : sts[i][1] <= t}
Dictated(sts, t) ==
    IF AtOrBefore(sts, t) = {} THEN sts[Len(sts)] ELSE sts[Max(AtOrBefore(sts, t))]

\* the thread is suspended strictly before its wake instant
Asleep == pc = "sleep" /\ clock < next

\* C1: while the run loop sleeps between two transitions of a table of
\* distinct times, the state last applied to the device is the state of the
\* table's latest event at or before the current time of day (of the last
\* event when there is none).
C1_DeviceFollowsTable ==
    (Asleep /\ DistinctTimes(states)) => device = Dictated(states, timeof(clock))[2]

\* C3: every next-event step of run taken from an event c returned the first
\* event in sorted order with a time of day strictly greater than c's, with
\* day offset 0, or the table's first event with day offset 1 when there is
\* no such event.
After(sts, c) == {i \in 1 .. Len(sts) : sts[i][1] > c[1]}
C3_NextAfterIsFirstGreater ==
    \A k \in DOMAIN cycle :
        LET later == After(states, cycle[k].from)
        IN  IF later = {}
            THEN cycle[k].event = states[1] /\ cycle[k].dayOffset = 1
            ELSE cycle[k].event = states[Min(later)] /\ cycle[k].dayOffset = 0

\* a table of three events or more from which both a same-day step and a
\* wrapping step have been taken
C3_Witness ==
    /\ pc = "fn"
    /\ Len(states) >= 3
    /\ \E i, j \in DOMAIN cycle :
          /\ cycle[i].dayOffset = 0 /\ cycle[i].event # states[Len(states)]
          /\ cycle[j].dayOffset = 1

\* the initial-state resolution has just been applied
Resolved == pc = "fn" /\ cycle = <<>> /\ ret # None

\* C4: the initial-state resolution of run, and of _next without a mark,
\* returns the latest event in sorted order at or before now, or the
\* table's last event, dated the previous day, when no event qualifies.
C4_InitialIsLatestAtOrBefore ==
    Resolved =>
        LET t == timeof(clock)
            d == Dictated(states, t)
        IN  /\ state = d
            /\ <<timeof(ret[1]), ret[2]>> = d
            /\ date(ret[1]) = IF AtOrBefore(states, t) = {} THEN date(clock) - 1
                               ELSE date(clock)

\* the resolution wrapped to the last event of a table of two events or more
C4_Witness ==
    /\ Resolved
    /\ Len(states) >= 2
    /\ AtOrBefore(states, timeof(clock)) = {}
    /\ state = states[Len(states)]

\* position of an event in a table of distinct times
IndexOf(sts, e) == CHOOSE i \in 1 .. Len(sts) : sts[i] = e

\* C2: on the timer chain, over a table of distinct times, each applied
\* transition is the cyclic successor in sorted order of the one applied
\* before it.
C2_ChainFollowsCyclicOrder ==
    (pc = "started" /\ DistinctTimes(states)) =>
        \A k \in 1 .. (Len(applied) - 1) :
            IndexOf(states, applied[k + 1][2])
                = (IndexOf(states, applied[k][2]) % Len(states)) + 1

\* C5: once stop() has been called on a started PowerScheduler, no state is
\* applied any more and no timer is pending.
C5_StopIsTerminal ==
    stopAt.pc = "started" =>
        /\ Len(applied) = stopAt.applied
        /\ \A i \in DOMAIN timers : ~Pending(i)

\* C6: once stop() has been called while the run loop waits, the loop
\* applies no further state.
C6_StopEndsWait ==
    stopAt.pc = "sleep" => Len(applied) = stopAt.applied

\* C7: after a device-control call has raised, the schedule goes on: the run
\* loop is still running, or a timer of the chain is pending or running.
C7_FailureDoesNotHalt ==
    failures > 0 =>
        \/ pc \in {"apply", "compute", "sleep"}
        \/ \E i \in DOMAIN timers : Pending(i) \/ Busy(i)

\* C8: a scheduler built from two empty lists does not get past its
\* constructor: the construction raised ConfigurationError.
C8_EmptyTableRejected ==
    (on_times = <<>> /\ off_times = <<>> /\ pc # "new") => exc = "ConfigurationError"

\* the event _next returned, without its date
RetEvent == <<timeof(ret[1]), ret[2]>>

\* C9: no next-event step, of run or of _next with a mark, returns the event
\* it was taken from, whatever the non-empty table.
C9_NeverReturnsCurrent ==
    (pc = "fn" /\ cycle # <<>>) =>
        /\ \A k \in DOMAIN cycle : cycle[k].event # cycle[k].from
        /\ RetEvent # cycle[Len(cycle)].from

\* C9 as amended: in a table whose events have two distinct times of day or
\* more, no next-event step, of run or of _next with a mark, returns the
\* event it was taken from.
C9_NeverReturnsCurrentTwoTimes ==
    (pc = "fn" /\ cycle # <<>> /\ Cardinality(TimesOf(states)) >= 2) =>
        /\ \A k \in DOMAIN cycle : cycle[k].event # cycle[k].from
        /\ RetEvent # cycle[Len(cycle)].from

\* a wrapping step taken from the last event of a table with two distinct
\* times of day or more, two of whose events share a time of day
C9_Witness ==
    /\ pc = "fn"
    /\ Cardinality(TimesOf(states)) >= 2
    /\ ~DistinctTimes(states)
    /\ \E k \in DOMAIN cycle :
          cycle[k].from = states[Len(states)] /\ cycle[k].dayOffset = 1

RECURSIVE SumOffsets(_, _)
SumOffsets(c, n) == IF n = 0 THEN 0 ELSE SumOffsets(c, n - 1) + c[n].dayOffset

\* C10: the first Len(states) next-event steps of run from any event visit
\* every event of the table exactly once, and their day offsets sum to 1.
C10_FullCycleVisitsAll ==
    (pc = "fn" /\ Len(cycle) >= Len(states)) =>
        LET n == Len(states)
            visited == [k \in 1 .. n |-> cycle[k].event]
        IN  /\ \A i \in 1 .. n : Count(visited, states[i]) = Count(states, states[i])
            /\ SumOffsets(cycle, n) = 1

\* the events of the table, as a set
EventsOf(sts) == {sts[i] : i \in 1 .. Len(sts)}

\* C11: when the next time of day T after the current event's holds both an
\* ON and an OFF entry, the next-event step of run returns the later of the
\* two in sort order, the OFF entry.
C11_TieReturnsLaterEntry ==
    \A k \in DOMAIN cycle :
        LET later == {t \in TimesOf(states) : t > cycle[k].from[1]}
        IN  (later # {} /\ <<Min(later), ON>> \in EventsOf(states)
                        /\ <<Min(later), OFF>> \in EventsOf(states))
                => cycle[k].event = <<Min(later), OFF>>

\* C12: a stop() call made on a started PowerScheduler on which stop() was
\* already called changes nothing: the timers, self._timer, the current and
\* next fields and the applied transitions are as the first call left them.
C12_RepeatedStopNoEffect ==
    [][(pc = "started" /\ stops >= 1 /\ stops' = stops + 1)
        => UNCHANGED <<timers, timerRef, current_time, current_state,
                       next_time, next_state, applied, device>>]_vars

\* C13: when the wake instant computed by run is at or before the instant
\* the wait begins, no time passes before the next transition is applied;
\* likewise a timer of the chain created with a delay that is not positive
\* applies its state at the instant it was started.
C13_ImmediateFire ==
    /\ (pc \in {"sleep", "apply", "dead"} /\ next # NoTime /\ next <= now)
          => (pc # "dead" /\ clock = now)
    /\ (pc = "compute" /\ next # NoTime /\ next <= now)
          => applied[Len(applied)] = <<now, state>>
    /\ pc \in {"starting", "started"} =>
          \A k \in DOMAIN timers :
              timers[k].delay <= 0 =>
                  /\ timers[k].status \in {"pending", "fired"} => clock = timers[k].started
                  /\ timers[k].status \in {"callback", "assign", "done"} =>
                        /\ k <= Len(applied)
                        /\ applied[k] = <<timers[k].started,
                                          <<timeof(timers[k].when), timers[k].st>>>>

\* run has applied a transition whose wake instant was already past when
\* the wait began
C13_Witness ==
    /\ pc = "compute"
    /\ next # NoTime
    /\ next < now
    /\ Len(applied) >= 2
    /\ applied[Len(applied)] = <<now, state>>

\* C14: before the first timed wait of a started scheduler begins, the state
\* of the event the table dictates at the start time (the table's last
\* event when none is at or before it) has been applied exactly once, and
\* nothing else: in run before its first sleep, on the timer chain before
\* the first successor timer is pending.
C14_InitialAppliedOnceBeforeWait ==
    /\ pc = "sleep" =>
          /\ Len(applied) >= 1
          /\ now = applied[1][1] =>
                /\ Len(applied) = 1
                /\ applied[1][2] = Dictated(states, timeof(now))
                /\ device = applied[1][2][2]
    /\ (pc \in {"starting", "started"} /\ Len(timers) >= 2) =>
          /\ Len(applied) >= 1
          /\ (Len(timers) = 2 /\ Pending(2)) =>
                /\ Len(applied) = 1
                /\ applied[1] = <<timers[1].started,
                                  Dictated(states, timeof(timers[1].started))>>
                /\ device = applied[1][2][2]

\* run in its first sleep on a table whose single event is later than now
C14_Witness ==
    /\ pc = "sleep"
    /\ Len(states) = 1
    /\ timeof(now) < states[1][1]
    /\ now = applied[1][1]
    /\ applied = <<<<now, states[1]>>>>

\* C15: a scheduler over a non-empty table is built and runs without an
\* exception, and every next-event step strictly advances: run's wake
\* instant is later than now, on the same day at a later time of day than
\* the event just applied or on the next day; the instants at which run
\* applies its states, and the datetimes of the timers of the chain, are
\* strictly increasing.
C15_StrictlyAdvances ==
    /\ (Len(on_times) + Len(off_times) >= 1 /\ pc # "new") =>
          (exc = "none" /\ Len(states) = Len(on_times) + Len(off_times))
    /\ pc = "sleep" =>
          /\ next > now
          /\ \/ date(next) = date(now) /\ timeof(next) > applied[Len(applied)][2][1]
             \/ date(next) = date(now) + 1
    /\ \A k \in 1 .. (Len(applied) - 1) : applied[k][1] < applied[k + 1][1]
    /\ \A k \in 1 .. (Len(timers) - 1) : timers[k].when < timers[k + 1].when

\* run has wrapped to the next day on a table of one ON and one OFF entry at
\* the same time of day
C15_Witness ==
    /\ Len(on_times) = 1
    /\ on_times = off_times
    /\ pc = "compute"
    /\ Len(applied) >= 2
    /\ date(applied[2][1]) = date(applied[1][1]) + 1

\* C16: the table built by the constructor holds every entry of on_times
\* (as ON) and of off_times (as OFF) as many times as the lists do and
\* nothing else, is in ascending order of time of day, and among entries of
\* equal time of day the ON entries come before the OFF entries.
C16_TableSortedStable ==
    pc # "new" =>
        /\ Len(states) = Len(on_times) + Len(off_times)
        /\ \A t \in Times :
              /\ Count(states, <<t, ON>>) = Count(on_times, t)
              /\ Count(states, <<t, OFF>>) = Count(off_times, t)
        /\ \A i, j \in 1 .. Len(states) :
              i < j =>
                  /\ states[i][1] <= states[j][1]
                  /\ states[i][1] = states[j][1] =>
                        ~(states[i][2] = OFF /\ states[j][2] = ON)

\* a table built from an on_times list that is not in order and an OFF entry
\* at the time of day of an ON entry
C16_Witness ==
    /\ pc = "idle"
    /\ Len(on_times) = 2
    /\ on_times[1] > on_times[2]
    /\ \E i \in 1 .. Len(off_times) : off_times[i] = on_times[1]

\* C17: after construction no step of a scheduler (start, stop, the timer
\* chain with _schedule, _event and _next, the run loop) changes states,
\* on_times or off_times.
C17_TableNeverModified ==
    [][pc # "new" => UNCHANGED <<states, on_times, off_times>>]_vars

\* a timer chain two timers long, stop() called, over lists that are not in
\* order, the table still the one built from them
C17_Witness ==
    /\ pc = "started"
    /\ stops >= 1
    /\ Len(timers) >= 2
    /\ Len(on_times) = 2 /\ on_times[1] > on_times[2]
    /\ Len(off_times) = 2 /\ off_times[1] > off_times[2]
    /\ states = BuildStates(on_times, off_times)

\* the PowerScheduler was started at a time of day earlier than every event
StartedBeforeFirst ==
    /\ pc \in {"starting", "started"}
    /\ AtOrBefore(states, timeof(timers[1].started)) = {}

\* C18: a PowerScheduler started at a time of day earlier than every event
\* schedules the table's last event dated yesterday, applies it at the
\* start instant, and schedules next, and applies at its time, the table's
\* first event dated today.
C18_FirstEventTodayNotSkipped ==
    StartedBeforeFirst =>
        LET t0 == timers[1].started
            last == states[Len(states)]
            today == combine(date(t0), states[1][1])
        IN  /\ timers[1].when = combine(date(t0) - 1, last[1])
            /\ timers[1].st = last[2]
            /\ Len(applied) >= 1 => applied[1] = <<t0, last>>
            /\ Len(timers) >= 2 => (timers[2].when = today /\ timers[2].st = states[1][2])
            /\ Len(applied) >= 2 => applied[2] = <<today, states[1]>>

\* started before the first of two events or more, today's first event applied
C18_Witness ==
    /\ StartedBeforeFirst
    /\ Len(states) >= 2
    /\ states[1] # states[Len(states)]
    /\ Len(applied) >= 2
    /\ applied[2][2] = states[1]

\* a timer waiting, or fired with its successor not scheduled yet
ChainHead(i) == timers[i].status \in {"pending", "fired", "callback"}

\* C19: on a PowerScheduler started once and never stopped, at most one
\* timer is pending, exactly one timer is pending or fired with no
\* successor yet (the chain neither forks nor dies out), and every timer
\* that has fired applied one state and, once through _event, scheduled one
\* successor, the next timer created.
C19_ChainNeitherForksNorDies ==
    pc \in {"starting", "started"} =>
        /\ Cardinality({i \in DOMAIN timers : Pending(i)}) <= 1
        /\ Cardinality({i \in DOMAIN timers : ChainHead(i)}) = 1
        /\ Len(applied)
             = Cardinality({i \in DOMAIN timers :
                              timers[i].status \in {"callback", "assign", "done"}})
        /\ \A i \in DOMAIN timers :
              /\ timers[i].status \in {"assign", "done"} =>
                    (timers[i].succ = i + 1 /\ i + 1 <= Len(timers))
              /\ timers[i].status \in {"callback", "assign", "done"} =>
                    applied[i][2] = <<timeof(timers[i].when), timers[i].st>>

\* a chain in which three timers have fired and finished, the fourth pending
C19_Witness ==
    /\ pc = "started"
    /\ Len(timers) = 4
    /\ \A i \in 1 .. 3 : timers[i].status = "done"
    /\ Pending(4)
    /\ Len(applied) = 3

====
